---- MODULE Spec2Model ----
(***************************************************************************)
(* A model of claudette: the project metadata store and port allocator of  *)
(* src/src/claudette/config.py, the add / remove / list commands with the  *)
(* branch-conflict resolver of src/src/claudette/cli.py, and the version   *)
(* gate with its layout migration as the specification describes them.     *)
(*                                                                         *)
(* Text is modelled as a sequence of tokens.  A token is one character     *)
(* (a letter, a digit, a quote, a space, "=", "#", "/") or, for the key    *)
(* literals the program itself writes, one run of characters that holds    *)
(* none of the characters the parser looks at.                             *)
(***************************************************************************)
EXTENDS Integers, Sequences, FiniteSets, TLC

VARIABLES
    files,      \* the directory <home>/projects: name |-> text of <name>.claudette
    lastSaved,  \* store API: {the value last handed to save}, {} before any save
    loadName,   \* store API: the name last handed to load, <<>> before any load
    loaded,     \* store API: the outcome of the last load
    used,       \* port allocator: the used-port set suggest_port works on
    start,      \* port allocator: the start_port argument
    suggested,  \* port allocator: the outcome of suggest_port
    initialized,\* whether the base repository (settings.superset_base) exists
    branches,   \* the branches of the base repository
    worktrees,  \* the worktree directories under settings.worktree_base
    cmd,        \* the command of the current or last invocation
    pc,         \* where the current invocation stands
    args,       \* the arguments of the current or last invocation
    chosenPort, \* add: the port chosen for the project
    final,      \* add: (final_branch_name, create_new_branch)
    log,        \* what the invocation did so far, in order
    outcome,    \* how the invocation ended
    suggestions,\* the outcome of _suggest_branch_names
    usedPorts,  \* the outcome of get_used_ports
    built,      \* the outcome of constructing a ProjectMetadata directly
    homeExists, \* whether the installation root (settings.claudette_home) exists
    marker,     \* the version marker file <home>/.claudette.json
    docs,       \* the PROJECT.md documents: project |-> text
    envs,       \* the projects that have a .env.local
    links,      \* the worktrees that hold the links to PROJECT.md and .env.local
    gateRun     \* what the last run of the version gate did

apiVars == <<lastSaved, loadName, loaded>>
storeVars == <<files, apiVars>>
portVars == <<used, start, suggested>>
repoVars == <<initialized, branches, worktrees>>
runVars == <<cmd, pc, args, chosenPort, final, log, outcome>>
cliVars == <<repoVars, runVars>>
auxVars == <<suggestions, usedPorts, built>>
gateVars == <<homeExists, marker, docs, envs, links, gateRun>>
vars == <<storeVars, portVars, cliVars, auxVars, gateVars>>

(***************************************************************************)
(* Bounds of the model and constants of the program.                       *)
(***************************************************************************)
MinPort == 9000
MaxPort == 9999
DefaultStartPort == 9001

\* The ports the model draws from: MinPort .. MinPort + PoolLow and
\* MaxPort - PoolHigh .. MaxPort.
PoolLow == 5
PoolHigh == 1
\* The most metadata files the store API puts into the directory.
MaxFiles == 2
\* The most rounds of the interactive choice loop one invocation is followed for.
MaxMenuRounds == 2

PortPool == (MinPort .. (MinPort + PoolLow)) \cup ((MaxPort - PoolHigh) .. MaxPort)

(***************************************************************************)
(* Characters.                                                             *)
(***************************************************************************)
DQ == "\""
SQ == "'"
SP == " "
EQ == "="
HASH == "#"
SLASH == "/"
Whitespace == {SP}
DigitChars == <<"0", "1", "2", "3", "4", "5", "6", "7", "8", "9">>

\* str(n) for a natural number n.
RECURSIVE IntToStr(_)
IntToStr(n) ==
    IF n < 10 THEN <<DigitChars[n + 1]>>
    ELSE IntToStr(n \div 10) \o <<DigitChars[(n % 10) + 1]>>

IsDigit(c) == \E i \in 1..10 : DigitChars[i] = c
DigitValue(c) == (CHOOSE i \in 1..10 : DigitChars[i] = c) - 1

RECURSIVE DigitsToInt(_)
DigitsToInt(s) ==
    IF Len(s) = 0 THEN 0
    ELSE 10 * DigitsToInt(SubSeq(s, 1, Len(s) - 1)) + DigitValue(s[Len(s)])

\* str.lstrip(chars), str.rstrip(chars), str.strip(chars)
RECURSIVE LStrip(_, _)
LStrip(s, cs) ==
    IF Len(s) > 0 /\ s[1] \in cs THEN LStrip(Tail(s), cs) ELSE s

RECURSIVE RStrip(_, _)
RStrip(s, cs) ==
    IF Len(s) > 0 /\ s[Len(s)] \in cs THEN RStrip(SubSeq(s, 1, Len(s) - 1), cs) ELSE s

Strip(s, cs) == RStrip(LStrip(s, cs), cs)

\* int(text): blanks around the number are skipped, a sign may lead, and
\* single underscores may stand between digits; anything else raises
\* ValueError.
IntSigned(s) == Len(s) > 0 /\ s[1] \in {"+", "-"}
IntBody(s) ==
    LET t == Strip(s, Whitespace) IN IF IntSigned(t) THEN Tail(t) ELSE t
IntIsDigitOrBar(c) == IsDigit(c) \/ c = "_"
IntParses(s) ==
    LET b == IntBody(s) IN
    /\ Len(b) > 0
    /\ IsDigit(b[1]) /\ IsDigit(b[Len(b)])
    /\ \A i \in 1..Len(b) : IntIsDigitOrBar(b[i])
    /\ \A i \in 1..(Len(b) - 1) : ~(b[i] = "_" /\ b[i + 1] = "_")
IntValue(s) ==
    LET t == Strip(s, Whitespace)
        n == DigitsToInt(SelectSeq(IntBody(s), IsDigit)) IN
    IF IntSigned(t) /\ t[1] = "-" THEN 0 - n ELSE n

Contains(s, c) == \E i \in 1..Len(s) : s[i] = c
FirstIndex(s, c) == CHOOSE i \in 1..Len(s) : s[i] = c /\ \A j \in 1..(i - 1) : s[j] # c

\* pathlib.Path(text): trailing separators are dropped, the empty text is ".".
PathOf(s) ==
    IF Len(s) = 0 THEN <<".">>
    ELSE IF \A i \in 1..Len(s) : s[i] = SLASH THEN <<SLASH>>
    ELSE RStrip(s, {SLASH})

(***************************************************************************)
(* ProjectMetadata (config.py).                                            *)
(***************************************************************************)
WorktreeBase == <<SLASH, "w">>
WorktreePath(name) == PathOf(WorktreeBase \o <<SLASH>> \o name)

PortValid(port) == port \in Int /\ port >= MinPort /\ port <= MaxPort

\* The constructor: the model has the three declared fields; any other
\* keyword (a description) is not a field and is dropped.
ProjectMetadata(name, port, path) == [name |-> name, port |-> port, path |-> path]

KeyName == <<"PROJECT_NAME">>
KeyPort == <<"NODE_PORT">>
KeyPath == <<"PROJECT_PATH">>

\* The text save writes for a record.
SaveText(m) ==
    << <<HASH, SP, "Claudette project metadata">>,
       KeyName \o <<EQ, DQ>> \o m.name \o <<DQ>>,
       KeyPort \o <<EQ, DQ>> \o IntToStr(m.port) \o <<DQ>>,
       KeyPath \o <<EQ, DQ>> \o m.path \o <<DQ>> >>

\* A file name that drops the quotes around a project name.
metadata_file_unquoted(name) == Strip(Strip(name, {DQ}), {SQ})

\* The file a record of this name is kept in, relative to <home>/projects,
\* without the ".claudette" suffix.
metadata_file(name) == name

Put(f, k, v) == [x \in (DOMAIN f) \cup {k} |-> IF x = k THEN v ELSE f[x]]

save(fs, m) == Put(fs, metadata_file(m.name), SaveText(m))

\* value.strip().strip('"').strip("'")
Unquote(value) == Strip(Strip(Strip(value, Whitespace), {DQ}), {SQ})

IsAssignment(line) ==
    /\ Contains(line, EQ)
    /\ LET t == Strip(line, Whitespace) IN ~(Len(t) > 0 /\ t[1] = HASH)

LineKey(line) == Strip(SubSeq(line, 1, FirstIndex(line, EQ) - 1), Whitespace)
LineValue(line) == Unquote(SubSeq(line, FirstIndex(line, EQ) + 1, Len(line)))

\* The dict the parse loop builds: a later line for a key replaces an earlier one.
RECURSIVE ParseLines(_, _)
ParseLines(text, acc) ==
    IF Len(text) = 0 THEN acc
    ELSE ParseLines(Tail(text),
                    IF IsAssignment(text[1])
                    THEN Put(acc, LineKey(text[1]), LineValue(text[1]))
                    ELSE acc)

EmptyDict == [k \in {} |-> <<>>]

Ok(v) == [ok |-> TRUE, value |-> v]
Raise(e) == [ok |-> FALSE, error |-> e]
\* The outcome of a call that was not made yet.
NotCalled == Raise("NotCalled")

\* A file whose bytes are no text: reading it raises UnicodeDecodeError.
Undecodable == << <<"\\xff">> >>

\* A constructor that checks only the lower end of the range.
NewProjectMetadataNoUpper(name, port, path) ==
    IF port \in Int /\ port >= MinPort THEN Ok(ProjectMetadata(name, port, path))
    ELSE Raise("ValidationError")

\* ProjectMetadata(name=, port=, path=) with the validation of its fields:
\* the port is an integer of [9000, 9999].
NewProjectMetadata(name, port, path) ==
    IF PortValid(port) THEN Ok(ProjectMetadata(name, port, path))
    ELSE Raise("ValidationError")

\* load from the opened file on (lines 39-54).
ParseRecord(text) ==
    IF text = Undecodable THEN Raise("UnicodeDecodeError")
    ELSE LET md == ParseLines(text, EmptyDict) IN
         IF ~({KeyName, KeyPort, KeyPath} \subseteq DOMAIN md) THEN Raise("KeyError")
         ELSE IF ~IntParses(md[KeyPort]) THEN Raise("ValueError")
         ELSE NewProjectMetadata(md[KeyName], IntValue(md[KeyPort]), PathOf(md[KeyPath]))

load(fs, project_name) ==
    IF metadata_file(project_name) \notin DOMAIN fs
    THEN Raise("FileNotFoundError")
    ELSE ParseRecord(fs[metadata_file(project_name)])

\* metadata_dir.glob("*.claudette"), as stems: the files directly in the
\* directory; a file in a subdirectory of it is not matched.
GlobStems(fs) == {n \in DOMAIN fs : ~Contains(n, SLASH)}

\* The exceptions of Python that are no subclass of Exception.
BaseExceptionsOnly == {"KeyboardInterrupt", "SystemExit"}

\* A handler that lets a record without its keys through.
CaughtButKeyError(error) == error \notin BaseExceptionsOnly \cup {"KeyError"}

\* `except Exception` (config.py line 75, cli.py line 504).
Caught(error) == error \notin BaseExceptionsOnly

\* get_used_ports with its outcome: the ports of the files load accepts, or
\* the exception of a load that the handler does not catch.
get_used_ports_call(fs) ==
    LET rs == {load(fs, n) : n \in GlobStems(fs)}
        escaped == {r \in rs : ~r.ok /\ ~Caught(r.error)} IN
    IF escaped # {} THEN CHOOSE r \in escaped : TRUE
    ELSE Ok({r.value.port : r \in {x \in rs : x.ok}})

get_used_ports(fs) ==
    {r.value.port : r \in {x \in {load(fs, n) : n \in GlobStems(fs)} : x.ok}}

\* The while loop of suggest_port: the first port from `port` up to MaxPort
\* that is not used.
RECURSIVE ScanUp(_, _)
ScanUp(port, used_ports) ==
    IF port <= MaxPort
    THEN IF port \notin used_ports THEN Ok(port) ELSE ScanUp(port + 1, used_ports)
    ELSE Raise("Exhausted")

\* A fallback that never yields a port.
FallbackNever(used_ports) == Raise("ValueError")

\* After the loop: range(9000, 9001) is the one port 9000.
Fallback(used_ports) ==
    IF MinPort \notin used_ports THEN Ok(MinPort) ELSE Raise("ValueError")

\* A scan that skips the start port itself.
SuggestFromSkippingStart(used_ports, start_port) ==
    LET r == ScanUp(start_port + 1, used_ports) IN
    IF r.ok THEN r ELSE Fallback(used_ports)

\* suggest_port after its call of get_used_ports.
SuggestFrom(used_ports, start_port) ==
    LET r == ScanUp(start_port, used_ports) IN
    IF r.ok THEN r ELSE Fallback(used_ports)

suggest_port(fs, start_port) ==
    LET u == get_used_ports_call(fs) IN
    IF u.ok THEN SuggestFrom(u.value, start_port) ELSE u

(***************************************************************************)
(* The commands (cli.py).                                                  *)
(***************************************************************************)
NoPort == 0
NoName == <<>>

\* One thing an invocation did: a prompt answered, a probe, a collaborator
\* call, a write.  ok is the answer of a probe or prompt, or whether the
\* call succeeded.
Ev(op, arg, ok) == [op |-> op, arg |-> arg, ok |-> ok]

NoArgs ==
    [project |-> NoName, port |-> NoPort, reuse |-> FALSE, force_new |-> FALSE,
     name |-> NoName, force |-> FALSE]
NoFinal == [name |-> NoName, create_new |-> FALSE]

\* _branch_exists
branch_exists(brs, branch_name) == branch_name \in brs

\* _suggest_branch_names: base-2 .. base-5 that are no branch, in that order.
Candidate(base_name, i) == base_name \o <<"-", DigitChars[i + 1]>>
\* The scan stopping one candidate early.
RECURSIVE SuggestFromIndexShort(_, _, _)
SuggestFromIndexShort(brs, base_name, i) ==
    IF i >= 5 THEN <<>>
    ELSE (IF ~branch_exists(brs, Candidate(base_name, i))
          THEN <<Candidate(base_name, i)>> ELSE <<>>)
         \o SuggestFromIndexShort(brs, base_name, i + 1)

RECURSIVE SuggestFromIndex(_, _, _)
SuggestFromIndex(brs, base_name, i) ==
    IF i >= 6 THEN <<>>
    ELSE (IF ~branch_exists(brs, Candidate(base_name, i))
          THEN <<Candidate(base_name, i)>> ELSE <<>>)
         \o SuggestFromIndex(brs, base_name, i + 1)
suggest_branch_names(brs, base_name) == SuggestFromIndex(brs, base_name, 2)

\* add, validation with both flags checked only after the port was chosen.
AddValidateFlagsLate(a, fs, init) ==
    IF ~init
    THEN [outcome |-> "exit1", port |-> NoPort, log |-> <<Ev("check_initialized", NoName, FALSE)>>]
    ELSE LET l1 == <<Ev("check_initialized", NoName, TRUE), Ev("get_used_ports", NoName, TRUE)>>
             r == suggest_port(fs, DefaultStartPort)
             p == IF a.port = NoPort THEN (IF r.ok THEN r.value ELSE NoPort) ELSE a.port IN
         IF (a.port = NoPort /\ ~r.ok) \/ (a.port # NoPort /\ a.port \in get_used_ports(fs))
         THEN [outcome |-> "exit1", port |-> NoPort, log |-> l1]
         ELSE IF a.reuse /\ a.force_new
         THEN [outcome |-> "exit1", port |-> NoPort, log |-> l1]
         ELSE [outcome |-> "running", port |-> p, log |-> l1]

\* add, lines 203-238: the flags, the initialisation check, the port.  The
\* port is auto-assigned, or a given port is checked against the used ports
\* (the alternative then suggested is computed by suggest_port, which raises
\* uncaught when it finds none).
AddValidate(a, fs, init) ==
    IF a.reuse /\ a.force_new
    THEN [outcome |-> "exit1", port |-> NoPort, log |-> <<>>]
    ELSE IF ~init
    THEN [outcome |-> "exit1", port |-> NoPort, log |-> <<Ev("check_initialized", NoName, FALSE)>>]
    ELSE LET l1 == <<Ev("check_initialized", NoName, TRUE), Ev("get_used_ports", NoName, TRUE)>> IN
         IF a.port = NoPort
         THEN LET r == suggest_port(fs, DefaultStartPort) IN
              IF r.ok THEN [outcome |-> "running", port |-> r.value, log |-> l1]
              ELSE [outcome |-> "exit1", port |-> NoPort, log |-> l1]
         ELSE IF a.port \in get_used_ports(fs)
              THEN [outcome |-> IF suggest_port(fs, DefaultStartPort).ok THEN "exit1" ELSE "crash",
                    port |-> NoPort, log |-> l1]
              ELSE [outcome |-> "running", port |-> a.port, log |-> l1]

\* The worktree removal and branch deletion, the branch deleted first.
DeleteAndRecreateBranchFirst(project, wts, brs, l, rmOk, delOk) ==
    LET l1 == Append(l, Ev("git_branch_delete", project, delOk))
        hasWt == project \in wts
        l2 == IF hasWt THEN Append(l1, Ev("git_worktree_remove", project, rmOk)) ELSE l1 IN
    IF ~delOk THEN [ok |-> FALSE, worktrees |-> wts, branches |-> brs, log |-> l1]
    ELSE IF hasWt /\ ~rmOk
    THEN [ok |-> FALSE, worktrees |-> wts, branches |-> brs \ {project}, log |-> l2]
    ELSE [ok |-> TRUE, worktrees |-> wts \ {project}, branches |-> brs \ {project}, log |-> l2]

\* The worktree removal and branch deletion going on to the branch after a
\* worktree removal that failed.
DeleteAndRecreateKeepGoing(project, wts, brs, l, rmOk, delOk) ==
    LET hasWt == project \in wts
        l1 == IF hasWt THEN Append(l, Ev("git_worktree_remove", project, rmOk)) ELSE l
        l2 == Append(l1, Ev("git_branch_delete", project, delOk))
        w2 == IF hasWt /\ rmOk THEN wts \ {project} ELSE wts IN
    IF ~delOk
    THEN [ok |-> FALSE, worktrees |-> w2, branches |-> brs, log |-> l2]
    ELSE [ok |-> TRUE, worktrees |-> w2, branches |-> brs \ {project}, log |-> l2]

\* The worktree removal and the branch deletion of --force-new (lines
\* 1228-1252) and of choice 3 (lines 1309-1337); rmOk and delOk say whether
\* git succeeds.
DeleteAndRecreate(project, wts, brs, l, rmOk, delOk) ==
    LET hasWt == project \in wts
        l1 == IF hasWt THEN Append(l, Ev("git_worktree_remove", project, rmOk)) ELSE l
        l2 == Append(l1, Ev("git_branch_delete", project, delOk)) IN
    IF hasWt /\ ~rmOk
    THEN [ok |-> FALSE, worktrees |-> wts, branches |-> brs, log |-> l1]
    ELSE IF ~delOk
    THEN [ok |-> FALSE, worktrees |-> wts \ {project}, branches |-> brs, log |-> l2]
    ELSE [ok |-> TRUE, worktrees |-> wts \ {project}, branches |-> brs \ {project}, log |-> l2]

\* What one step of the resolver leaves behind.
Step(next, out, fin, wts, brs, l) ==
    [pc |-> next, outcome |-> out, final |-> fin, worktrees |-> wts, branches |-> brs, log |-> l]
Returns(name, create_new, wts, brs, l) ==
    Step("create", "running", [name |-> name, create_new |-> create_new], wts, brs, l)
Exits(out, wts, brs, l) == Step("exited", out, NoFinal, wts, brs, l)

\* The resolver with the automation flags looked at before --name.
ResolveFlagsFirst(a, wts, brs, l, rmOk, delOk) ==
    IF a.reuse THEN Returns(a.project, FALSE, wts, brs, l)
    ELSE IF a.force_new
    THEN LET d == DeleteAndRecreate(a.project, wts, brs, l, rmOk, delOk) IN
         IF d.ok THEN Returns(a.project, TRUE, d.worktrees, d.branches, d.log)
         ELSE Exits("exit1", d.worktrees, d.branches, d.log)
    ELSE IF a.name # NoName
    THEN LET l1 == Append(l, Ev("branch_exists", a.name, branch_exists(brs, a.name))) IN
         IF branch_exists(brs, a.name) THEN Exits("exit1", wts, brs, l1)
         ELSE Returns(a.name, TRUE, wts, brs, l1)
    ELSE Step("menu", "running", NoFinal, wts, brs, Append(l, Ev("branch_info", a.project, TRUE)))

\* The resolver returning an explicit name without probing it.
ResolveFlagsNameUnprobed(a, wts, brs, l, rmOk, delOk) ==
    IF a.name # NoName THEN Returns(a.name, TRUE, wts, brs, l)
    ELSE IF a.reuse THEN Returns(a.project, FALSE, wts, brs, l)
    ELSE IF a.force_new
    THEN LET d == DeleteAndRecreate(a.project, wts, brs, l, rmOk, delOk) IN
         IF d.ok THEN Returns(a.project, TRUE, d.worktrees, d.branches, d.log)
         ELSE Exits("exit1", d.worktrees, d.branches, d.log)
    ELSE Step("menu", "running", NoFinal, wts, brs, Append(l, Ev("branch_info", a.project, TRUE)))

\* _handle_branch_conflict up to the choice loop (lines 1211-1273).
ResolveFlags(a, wts, brs, l, rmOk, delOk) ==
    IF a.name # NoName
    THEN LET l1 == Append(l, Ev("branch_exists", a.name, branch_exists(brs, a.name))) IN
         IF branch_exists(brs, a.name) THEN Exits("exit1", wts, brs, l1)
         ELSE Returns(a.name, TRUE, wts, brs, l1)
    ELSE IF a.reuse THEN Returns(a.project, FALSE, wts, brs, l)
    ELSE IF a.force_new
    THEN LET d == DeleteAndRecreate(a.project, wts, brs, l, rmOk, delOk) IN
         IF d.ok THEN Returns(a.project, TRUE, d.worktrees, d.branches, d.log)
         ELSE Exits("exit1", d.worktrees, d.branches, d.log)
    ELSE Step("menu", "running", NoFinal, wts, brs, Append(l, Ev("branch_info", a.project, TRUE)))

ChoiceEv(choice) == Ev("choice", <<DigitChars[choice + 1]>>, TRUE)
Again(wts, brs, l) == Step("menu", "running", NoFinal, wts, brs, l)

\* One round of the loop in which choice 3 deletes without asking.
MenuRoundNoConfirm(a, choice, new_name, confirm, wts, brs, l, rmOk, delOk) ==
    LET l0 == Append(l, ChoiceEv(choice)) IN
    IF choice = 3
    THEN LET d == DeleteAndRecreate(a.project, wts, brs, l0, rmOk, delOk) IN
         IF d.ok THEN Returns(a.project, TRUE, d.worktrees, d.branches, d.log)
         ELSE Exits("exit1", d.worktrees, d.branches, d.log)
    ELSE IF choice = 1 THEN Returns(a.project, FALSE, wts, brs, l0)
    ELSE IF choice = 4 THEN Exits("exit0", wts, brs, l0)
    ELSE Again(wts, brs, l0)

\* One round of the loop in which choice 1 is taken for choice 3 and back.
MenuRoundSwapped(a, choice, new_name, confirm, wts, brs, l, rmOk, delOk) ==
    LET l0 == Append(l, ChoiceEv(choice)) IN
    IF choice = 3 THEN Returns(a.project, FALSE, wts, brs, l0)
    ELSE IF choice = 1
    THEN LET d == DeleteAndRecreate(a.project, wts, brs, l0, rmOk, delOk) IN
         IF d.ok THEN Returns(a.project, FALSE, d.worktrees, d.branches, d.log)
         ELSE Exits("exit1", d.worktrees, d.branches, d.log)
    ELSE IF choice = 4 THEN Exits("exit0", wts, brs, l0)
    ELSE Again(wts, brs, l0)

\* One round of the loop in which choice 2 takes the name typed unprobed.
MenuRoundRenameUnchecked(a, choice, new_name, confirm, wts, brs, l, rmOk, delOk) ==
    LET l0 == Append(l, ChoiceEv(choice)) IN
    IF choice = 1 THEN Returns(a.project, FALSE, wts, brs, l0)
    ELSE IF choice = 2
    THEN Returns(new_name, TRUE, wts, brs,
                 Append(Append(Append(l0,
                     Ev("suggest_branch_names", a.project, suggest_branch_names(brs, a.project) # <<>>)),
                     Ev("prompt_name", new_name, TRUE)),
                     Ev("branch_exists", new_name, branch_exists(brs, new_name))))
    ELSE IF choice = 3
    THEN LET l1 == Append(l0, Ev("confirm", a.project, confirm)) IN
         IF ~confirm THEN Again(wts, brs, l1)
         ELSE LET d == DeleteAndRecreate(a.project, wts, brs, l1, rmOk, delOk) IN
              IF d.ok THEN Returns(a.project, TRUE, d.worktrees, d.branches, d.log)
              ELSE Exits("exit1", d.worktrees, d.branches, d.log)
    ELSE IF choice = 4 THEN Exits("exit0", wts, brs, l0)
    ELSE Again(wts, brs, l0)

\* One round of the loop in which a declined confirmation and an invalid
\* choice leave the resolver.
MenuRoundDeclineLeaves(a, choice, new_name, confirm, wts, brs, l, rmOk, delOk) ==
    LET l0 == Append(l, ChoiceEv(choice)) IN
    IF choice = 1 THEN Returns(a.project, FALSE, wts, brs, l0)
    ELSE IF choice = 2
    THEN LET l1 == Append(Append(Append(l0,
                      Ev("suggest_branch_names", a.project, suggest_branch_names(brs, a.project) # <<>>)),
                      Ev("prompt_name", new_name, TRUE)),
                      Ev("branch_exists", new_name, branch_exists(brs, new_name))) IN
         IF branch_exists(brs, new_name) THEN Again(wts, brs, l1)
         ELSE Returns(new_name, TRUE, wts, brs, l1)
    ELSE IF choice = 3
    THEN LET l1 == Append(l0, Ev("confirm", a.project, confirm)) IN
         IF ~confirm THEN Exits("exit0", wts, brs, l1)
         ELSE LET d == DeleteAndRecreate(a.project, wts, brs, l1, rmOk, delOk) IN
              IF d.ok THEN Returns(a.project, TRUE, d.worktrees, d.branches, d.log)
              ELSE Exits("exit1", d.worktrees, d.branches, d.log)
    ELSE IF choice = 4 THEN Exits("exit0", wts, brs, l0)
    ELSE Returns(a.project, FALSE, wts, brs, l0)

\* One round of the loop in which Cancel ends add with an error.
MenuRoundCancelIsError(a, choice, new_name, confirm, wts, brs, l, rmOk, delOk) ==
    LET l0 == Append(l, ChoiceEv(choice)) IN
    IF choice = 1 THEN Returns(a.project, FALSE, wts, brs, l0)
    ELSE IF choice = 2
    THEN LET l1 == Append(Append(Append(l0,
                      Ev("suggest_branch_names", a.project, suggest_branch_names(brs, a.project) # <<>>)),
                      Ev("prompt_name", new_name, TRUE)),
                      Ev("branch_exists", new_name, branch_exists(brs, new_name))) IN
         IF branch_exists(brs, new_name) THEN Again(wts, brs, l1)
         ELSE Returns(new_name, TRUE, wts, brs, l1)
    ELSE IF choice = 3
    THEN LET l1 == Append(l0, Ev("confirm", a.project, confirm)) IN
         IF ~confirm THEN Again(wts, brs, l1)
         ELSE LET d == DeleteAndRecreate(a.project, wts, brs, l1, rmOk, delOk) IN
              IF d.ok THEN Returns(a.project, TRUE, d.worktrees, d.branches, d.log)
              ELSE Exits("exit1", d.worktrees, d.branches, d.log)
    ELSE IF choice = 4 THEN Exits("exit1", wts, brs, l0)
    ELSE Again(wts, brs, l0)

\* One round of the choice loop (lines 1275-1344): the choice (any integer;
\* 5 stands for every integer outside 1..4), and for choice 2 the name typed,
\* for choice 3 the confirmation given.
MenuRound(a, choice, new_name, confirm, wts, brs, l, rmOk, delOk) ==
    LET l0 == Append(l, ChoiceEv(choice)) IN
    IF choice = 1 THEN Returns(a.project, FALSE, wts, brs, l0)
    ELSE IF choice = 2
    THEN LET l1 == Append(Append(Append(l0,
                      Ev("suggest_branch_names", a.project, suggest_branch_names(brs, a.project) # <<>>)),
                      Ev("prompt_name", new_name, TRUE)),
                      Ev("branch_exists", new_name, branch_exists(brs, new_name))) IN
         IF branch_exists(brs, new_name) THEN Again(wts, brs, l1)
         ELSE Returns(new_name, TRUE, wts, brs, l1)
    ELSE IF choice = 3
    THEN LET l1 == Append(l0, Ev("confirm", a.project, confirm)) IN
         IF ~confirm THEN Again(wts, brs, l1)
         ELSE LET d == DeleteAndRecreate(a.project, wts, brs, l1, rmOk, delOk) IN
              IF d.ok THEN Returns(a.project, TRUE, d.worktrees, d.branches, d.log)
              ELSE Exits("exit1", d.worktrees, d.branches, d.log)
    ELSE IF choice = 4 THEN Exits("exit0", wts, brs, l0)
    ELSE Again(wts, brs, l0)

\* The rounds of the choice loop the invocation went through.
Rounds(l) == Cardinality({i \in 1..Len(l) : l[i].op = "choice"})

\* The metadata add saves, left as built before the resolver renamed the
\* project.
AddMetadataBeforeRename(fin, p) ==
    ProjectMetadata(args.project, p, WorktreePath(args.project))

\* The metadata add saves: named after the final branch (lines 240-242, 256-259).
AddMetadata(fin, p) == ProjectMetadata(fin.name, p, WorktreePath(fin.name))

\* Whether git can add the worktree: the directory is free, and the branch
\* is new with -b and exists without it.
CanAddWorktree(fin, wts, brs) ==
    /\ fin.name \notin wts
    /\ fin.create_new <=> ~branch_exists(brs, fin.name)

ProjectNames == { <<"a">>, <<"f", SLASH, "x">> }
PortArgs == {NoPort, DefaultStartPort, DefaultStartPort + 1, MaxPort + 1}
NameArgs == {NoName} \cup ProjectNames

ApiIdle ==
    /\ lastSaved = {}
    /\ loadName = <<>>
    /\ loaded = NotCalled

PortIdle ==
    /\ used = {}
    /\ start = DefaultStartPort
    /\ suggested = NotCalled

AuxIdle ==
    /\ suggestions = NotCalled
    /\ usedPorts = NotCalled
    /\ built = NotCalled

\* The version marker: absent, or a file that cannot be read, or one that is
\* no JSON, or JSON without the version field, or JSON with it.
Marker(state, version) == [state |-> state, version |-> version]
NoMarker == Marker("absent", "")
\* What a run of the gate or of the migration did: the marker it found,
\* whether it migrated, whether it wrote the marker, whether it raised, and
\* the projects whose migration raised.
GateRun(op, found, migrated, wrote, raised, failed) ==
    [op |-> op, found |-> found, migrated |-> migrated, wrote |-> wrote,
     raised |-> raised, failed |-> failed]
NoGateRun == GateRun("none", NoMarker, FALSE, FALSE, FALSE, {})

GateIdle ==
    /\ homeExists = TRUE
    /\ marker = NoMarker
    /\ docs = EmptyDict
    /\ envs = {}
    /\ links = {}
    /\ gateRun = NoGateRun

RunIdle ==
    /\ cmd = "none"
    /\ pc = "idle"
    /\ args = NoArgs
    /\ chosenPort = NoPort
    /\ final = NoFinal
    /\ log = <<>>
    /\ outcome = "none"

CliIdle ==
    /\ initialized = FALSE
    /\ branches = {}
    /\ worktrees = {}
    /\ RunIdle

Init ==
    /\ files = EmptyDict
    /\ ApiIdle
    /\ PortIdle
    /\ initialized \in BOOLEAN
    /\ branches \in (IF initialized THEN SUBSET ProjectNames ELSE {{}})
    /\ worktrees = {}
    /\ RunIdle
    /\ AuxIdle
    /\ GateIdle

\* No invocation is running: the next command can be typed.
AtPrompt == pc = "idle"

Apply(r) ==
    /\ pc' = r.pc
    /\ outcome' = r.outcome
    /\ final' = r.final
    /\ worktrees' = r.worktrees
    /\ branches' = r.branches
    /\ log' = r.log

\* add up to the probe, entering the resolver also for an explicit name
\* when the branch PROJECT does not exist.
AddStartNameAlwaysResolved(project, p, reuse, force_new, name) ==
    /\ AtPrompt
    /\ cmd' = "add"
    /\ args' = [NoArgs EXCEPT !.project = project, !.port = p, !.reuse = reuse,
                              !.force_new = force_new, !.name = name]
    /\ IF p # NoPort /\ ~PortValid(p)
       THEN /\ chosenPort' = NoPort
            /\ Apply(Exits("exit2", worktrees, branches, <<>>))
       ELSE LET v == AddValidate(args', files, initialized) IN
            /\ chosenPort' = v.port
            /\ IF v.outcome # "running"
               THEN Apply(Exits(v.outcome, worktrees, branches, v.log))
               ELSE LET l == v.log \o <<Ev("mkdir_worktree_base", NoName, TRUE),
                                         Ev("branch_exists", project, branch_exists(branches, project))>> IN
                    IF branch_exists(branches, project) \/ name # NoName
                    THEN Apply(Step("resolve", "running", NoFinal, worktrees, branches, l))
                    ELSE Apply(Returns(project, TRUE, worktrees, branches, l))
    /\ UNCHANGED <<files, apiVars, portVars, auxVars, gateVars, initialized>>

\* claudette add PROJECT [PORT] [--reuse] [--force-new] [--name NAME], up to
\* the probe of the branch PROJECT (lines 180-251).
AddStart(project, p, reuse, force_new, name) ==
    /\ AtPrompt
    /\ cmd' = "add"
    /\ args' = [NoArgs EXCEPT !.project = project, !.port = p, !.reuse = reuse,
                              !.force_new = force_new, !.name = name]
    /\ IF p # NoPort /\ ~PortValid(p)
       THEN /\ chosenPort' = NoPort
            /\ Apply(Exits("exit2", worktrees, branches, <<>>))
       ELSE LET v == AddValidate(args', files, initialized) IN
            /\ chosenPort' = v.port
            /\ IF v.outcome # "running"
               THEN Apply(Exits(v.outcome, worktrees, branches, v.log))
               ELSE LET l == v.log \o <<Ev("mkdir_worktree_base", NoName, TRUE),
                                         Ev("branch_exists", project, branch_exists(branches, project))>> IN
                    IF branch_exists(branches, project)
                    THEN Apply(Step("resolve", "running", NoFinal, worktrees, branches, l))
                    ELSE Apply(Returns(project, TRUE, worktrees, branches, l))
    /\ UNCHANGED <<files, apiVars, portVars, auxVars, gateVars, initialized>>

\* _handle_branch_conflict, entered because the branch PROJECT exists.
Resolve ==
    /\ pc = "resolve"
    /\ \E rmOk \in BOOLEAN, delOk \in BOOLEAN :
         Apply(ResolveFlags(args, worktrees, branches, log, rmOk, delOk))
    /\ UNCHANGED <<files, apiVars, portVars, auxVars, gateVars, initialized, cmd, args, chosenPort>>

\* One round of the choice loop of _handle_branch_conflict.
Menu ==
    /\ pc = "menu"
    /\ Rounds(log) < MaxMenuRounds
    /\ \E choice \in 1..5, new_name \in ProjectNames, confirm \in BOOLEAN,
          rmOk \in BOOLEAN, delOk \in BOOLEAN :
         Apply(MenuRound(args, choice, new_name, confirm, worktrees, branches, log, rmOk, delOk))
    /\ UNCHANGED <<files, apiVars, portVars, auxVars, gateVars, initialized, cmd, args, chosenPort>>

\* add from the creation of the worktree on, the metadata saved before the
\* worktree is added.
AddCreateSavingFirst ==
    /\ pc = "create"
    /\ \E addOk \in BOOLEAN, setupOk \in BOOLEAN :
         /\ addOk => CanAddWorktree(final, worktrees, branches)
         /\ LET op == IF final.create_new THEN "git_worktree_add_new"
                      ELSE "git_worktree_add_existing"
                l1 == log \o <<Ev("save", final.name, TRUE), Ev(op, final.name, addOk)>> IN
            /\ files' = save(files, AddMetadata(final, chosenPort))
            /\ IF ~addOk
               THEN Apply(Step("exited", "exit1", final, worktrees, branches, l1))
               ELSE Apply(Step("exited", IF setupOk THEN "ok" ELSE "crash", final,
                               worktrees \cup {final.name}, branches \cup {final.name},
                               Append(l1, Ev("setup", final.name, setupOk))))
    /\ UNCHANGED <<apiVars, portVars, auxVars, gateVars, initialized, cmd, args, chosenPort>>

\* add from the creation of the worktree on (lines 261-417).
AddCreate ==
    /\ pc = "create"
    /\ \E addOk \in BOOLEAN, setupOk \in BOOLEAN :
         /\ addOk => CanAddWorktree(final, worktrees, branches)
         /\ LET op == IF final.create_new THEN "git_worktree_add_new"
                      ELSE "git_worktree_add_existing"
                l1 == Append(log, Ev(op, final.name, addOk)) IN
            IF ~addOk
            THEN /\ Apply(Step("exited", "exit1", final, worktrees, branches, l1))
                 /\ files' = files
            ELSE /\ files' = save(files, AddMetadata(final, chosenPort))
                 /\ Apply(Step("exited", IF setupOk THEN "ok" ELSE "crash", final,
                               worktrees \cup {final.name}, branches \cup {final.name},
                               l1 \o <<Ev("save", final.name, TRUE),
                                       Ev("setup", final.name, setupOk)>>))
    /\ UNCHANGED <<apiVars, portVars, auxVars, gateVars, initialized, cmd, args, chosenPort>>

\* What remove does once the project's directory was found (lines 432-473).
RemovePlan(project, force, confirm, dockerOk, gitOk, fs, wts, brs) ==
    LET r == load(fs, project)
        l0 == <<Ev("load", project, r.ok)>>
        l1 == IF force THEN l0 ELSE Append(l0, Ev("confirm", project, confirm))
        l2 == IF r.ok THEN Append(l1, Ev("docker_down", project, dockerOk)) ELSE l1
        l3 == Append(l2, Ev("git_worktree_remove", project, gitOk)) IN
    IF ~r.ok /\ r.error # "FileNotFoundError" THEN Exits("crash", wts, brs, l0)
    ELSE IF ~force /\ ~confirm THEN Exits("exit0", wts, brs, l1)
    ELSE IF r.ok /\ ~dockerOk THEN Exits("crash", wts, brs, l2)
    ELSE IF ~gitOk THEN Exits("crash", wts, brs, l3)
    ELSE Exits("ok", wts \ {project}, brs, l3)

\* claudette remove PROJECT [--force]
Remove(project, force) ==
    /\ AtPrompt
    /\ cmd' = "remove"
    /\ args' = [NoArgs EXCEPT !.project = project, !.force = force]
    /\ chosenPort' = NoPort
    /\ IF project \notin worktrees
       THEN Apply(Exits("exit1", worktrees, branches, <<>>))
       ELSE \E confirm \in BOOLEAN, dockerOk \in BOOLEAN, gitOk \in BOOLEAN :
              Apply(RemovePlan(project, force, confirm, dockerOk, gitOk,
                               files, worktrees, branches))
    /\ UNCHANGED <<files, apiVars, portVars, auxVars, gateVars, initialized>>

\* The process of the invocation that ended is gone.
Finish ==
    /\ pc = "exited"
    /\ cmd' = "none"
    /\ pc' = "idle"
    /\ args' = NoArgs
    /\ chosenPort' = NoPort
    /\ final' = NoFinal
    /\ log' = <<>>
    /\ outcome' = "none"
    /\ UNCHANGED <<storeVars, portVars, auxVars, gateVars, repoVars>>

Next ==
    \/ \E project \in ProjectNames, p \in PortArgs, reuse \in BOOLEAN,
          force_new \in BOOLEAN, name \in NameArgs :
         AddStart(project, p, reuse, force_new, name)
    \/ Resolve
    \/ Menu
    \/ AddCreate
    \/ \E project \in ProjectNames, force \in BOOLEAN : Remove(project, force)
    \/ Finish

Spec == Init /\ [][Next]_vars

IsGitCall(e) ==
    e.op \in {"git_worktree_remove", "git_branch_delete",
              "git_worktree_add_new", "git_worktree_add_existing"}
GitCalls(l) == SelectSeq(l, IsGitCall)
ForceNewMode(a) == a.force_new /\ ~a.reuse /\ a.name = NoName
PortArgAccepted(a) == a.port = NoPort \/ PortValid(a.port)

\* C4: after remove(project) completed successfully load(project) fails with
\* not-found and the port the project had is no longer in get_used_ports().
C4_RemoveDeletesRecord ==
    [][(cmd' = "remove" /\ pc' = "exited" /\ outcome' = "ok")
        => /\ load(files', args'.project) = Raise("FileNotFoundError")
           /\ load(files, args'.project).ok
                => load(files, args'.project).value.port \notin get_used_ports(files')]_vars

\* C5: no two metadata records of the store have the same port, whatever
\* sequence of add (and remove) commands ran.
C5_PortsUnique ==
    \A n1 \in DOMAIN files, n2 \in DOMAIN files :
        (n1 # n2 /\ load(files, n1).ok /\ load(files, n2).ok)
            => load(files, n1).value.port # load(files, n2).value.port

\* C6: add invoked with both --reuse and --force-new exits with an error
\* having done nothing: no probe, no port allocation, no write, no git call.
C6_ConflictingFlagsFirst ==
    [][(AtPrompt /\ cmd' = "add" /\ args'.reuse /\ args'.force_new /\ PortArgAccepted(args'))
        => /\ pc' = "exited"
           /\ outcome' = "exit1"
           /\ log' = <<>>
           /\ UNCHANGED <<files, repoVars>>]_vars

\* C6 witness: add exited on the conflicting flags in a repository where the
\* branch exists, so that there was other work to do.
C6_Witness ==
    /\ cmd = "add"
    /\ args.reuse /\ args.force_new
    /\ outcome = "exit1"
    /\ initialized
    /\ branch_exists(branches, args.project)

\* C7 as stated: every deletion of the existing branch by the resolver comes
\* after a confirmation step that was answered yes.
C7_DeletionAlwaysConfirmed ==
    cmd = "add" =>
        \A i \in 1..Len(log) :
            (log[i].op = "git_branch_delete" /\ log[i].ok)
                => \E j \in 1..(i - 1) : log[j].op = "confirm" /\ log[j].ok

\* C7 amended: a deletion of the existing branch happens only with no --name
\* and no --reuse; without --force-new it comes right after choice 3 and a
\* confirmation answered yes, with --force-new it comes without any
\* confirmation step.
C7_DeletionConfirmedUnlessForceNew ==
    cmd = "add" =>
        \A i \in 1..Len(log) :
            log[i].op = "git_branch_delete"
                => /\ args.name = NoName /\ ~args.reuse
                   /\ IF args.force_new
                      THEN \A j \in 1..Len(log) : log[j].op # "confirm"
                      ELSE \E j \in 2..(i - 1) :
                              /\ log[j] = Ev("confirm", args.project, TRUE)
                              /\ log[j - 1] = ChoiceEv(3)
                              /\ \A k \in (j + 1)..(i - 1) : IsGitCall(log[k])

\* C7 witness: the branch was deleted from the choice loop.
C7_Witness ==
    /\ cmd = "add"
    /\ ~args.force_new
    /\ \E i \in 1..Len(log) : log[i].op = "git_branch_delete" /\ log[i].ok

\* C8: in force-new mode the resolver either returns (project, TRUE) after
\* removing the worktree if there is one and then deleting the branch, these
\* being its only git calls, or exits with an error after a failed git call.
C8_ForceNewRemovesThenDeletes ==
    [][(pc = "resolve" /\ ForceNewMode(args))
        => \/ /\ pc' = "create"
              /\ final' = [name |-> args.project, create_new |-> TRUE]
              /\ GitCalls(log') =
                    (IF args.project \in worktrees
                     THEN <<Ev("git_worktree_remove", args.project, TRUE)>> ELSE <<>>)
                    \o <<Ev("git_branch_delete", args.project, TRUE)>>
              /\ worktrees' = worktrees \ {args.project}
              /\ branches' = branches \ {args.project}
           \/ /\ pc' = "exited"
              /\ outcome' = "exit1"
              /\ \E i \in 1..Len(log') : IsGitCall(log'[i]) /\ ~log'[i].ok]_vars

\* C8 witness: force-new returned after removing a worktree and deleting the
\* branch.
C8_Witness ==
    /\ pc = "create"
    /\ ForceNewMode(args)
    /\ final = [name |-> args.project, create_new |-> TRUE]
    /\ Len(GitCalls(log)) = 2

\* C9: with an explicit name the resolver fails if that branch exists and
\* otherwise returns (name, TRUE), whatever --reuse and --force-new are, and
\* removes no worktree and deletes no branch.
C9_ExplicitNameFirst ==
    [][(pc = "resolve" /\ args.name # NoName)
        => /\ IF branch_exists(branches, args.name)
              THEN pc' = "exited" /\ outcome' = "exit1"
              ELSE pc' = "create" /\ final' = [name |-> args.name, create_new |-> TRUE]
           /\ GitCalls(log') = <<>>
           /\ UNCHANGED <<files, repoVars>>]_vars

\* C9 witness: the explicit name won over --force-new.
C9_Witness ==
    /\ pc = "create"
    /\ args.name # NoName
    /\ args.force_new
    /\ final = [name |-> args.name, create_new |-> TRUE]

TookChoice(c) ==
    /\ pc = "menu"
    /\ Len(log') > Len(log)
    /\ log'[Len(log) + 1] = ChoiceEv(c)

\* C10: with --reuse (and no --name) and with choice 1 of the loop the
\* resolver returns (project, FALSE), removes no worktree and deletes no
\* branch.
C10_ReuseIsNonDestructive ==
    [][((pc = "resolve" /\ args.name = NoName /\ args.reuse) \/ TookChoice(1))
        => /\ pc' = "create"
           /\ final' = [name |-> args.project, create_new |-> FALSE]
           /\ GitCalls(log') = <<>>
           /\ UNCHANGED <<files, repoVars>>]_vars

\* C10 witness: choice 1 was taken after a round that did not end the loop.
C10_Witness ==
    /\ pc = "create"
    /\ final = [name |-> args.project, create_new |-> FALSE]
    /\ Rounds(log) = 2
    /\ log[Len(log)] = ChoiceEv(1)

\* The probe of a name typed in the rename step is at this place of the log.
IsRenameProbe(l, i) ==
    /\ i >= 2
    /\ l[i].op = "branch_exists"
    /\ l[i - 1].op = "prompt_name"

\* C20 as stated: after a name typed in the rename step that exists as a
\* branch the resolver asks for a name again, not for a choice; and it
\* returns a typed name only if no such branch exists.
C20_RenameRepromptsForName ==
    cmd = "add" =>
        \A i \in 1..Len(log) :
            IsRenameProbe(log, i) =>
                IF log[i].ok
                THEN /\ i = Len(log) => pc # "menu"
                     /\ i < Len(log) => log[i + 1].op = "prompt_name"
                ELSE final = [name |-> log[i].arg, create_new |-> TRUE]

\* C20 amended: after a name typed in the rename step that exists as a
\* branch the resolver goes back to the choice prompt, having returned
\* nothing; it returns (name typed, TRUE) only for a name that is no branch,
\* and then leaves the loop.
C20_RenameConflictBackToChoice ==
    cmd = "add" =>
        \A i \in 1..Len(log) :
            IsRenameProbe(log, i) =>
                IF log[i].ok
                THEN /\ i = Len(log) => pc = "menu" /\ final = NoFinal
                     /\ i < Len(log) => log[i + 1].op = "choice"
                ELSE /\ final = [name |-> log[i].arg, create_new |-> TRUE]
                     /\ i = Len(log) => pc = "create"
                     /\ i < Len(log) => log[i + 1].op = "git_worktree_add_new"

\* C20 witness: a first name typed was taken, the choice prompt came back,
\* and a second name typed was returned.
C20_Witness ==
    /\ cmd = "add"
    /\ pc = "create"
    /\ Rounds(log) = 2
    /\ final.create_new
    /\ final.name # args.project
    /\ \E i \in 1..Len(log) : IsRenameProbe(log, i) /\ log[i].ok

(***************************************************************************)
(* The port allocator on its own: every used-port set over the pool and    *)
(* every start port of the pool.                                           *)
(***************************************************************************)
StoreIdle ==
    /\ files = EmptyDict
    /\ ApiIdle

InitPort ==
    /\ used \in SUBSET PortPool
    /\ start \in PortPool
    /\ suggested = NotCalled
    /\ StoreIdle
    /\ CliIdle
    /\ AuxIdle
    /\ GateIdle

CallSuggestPort ==
    /\ suggested = NotCalled
    /\ suggested' = SuggestFrom(used, start)
    /\ UNCHANGED <<used, start, storeVars, cliVars, auxVars, gateVars>>

NextPort == CallSuggestPort

SpecPort == InitPort /\ [][NextPort]_vars

FreeFrom(s, U) == {p \in s..MaxPort : p \notin U}
LowestOf(S) == CHOOSE p \in S : \A q \in S : p <= q

\* C1: whenever some port of [start, 9999] is unused, suggest_port returns
\* the lowest unused port that is >= start.
C1_LowestFreePort ==
    (suggested # NotCalled /\ FreeFrom(start, used) # {})
        => suggested = Ok(LowestOf(FreeFrom(start, used)))

\* C1 witness: with {9001, 9002, 9005} used the default start gives 9003.
C1_Witness ==
    /\ start = DefaultStartPort
    /\ used = {9001, 9002, 9005}
    /\ suggested = Ok(9003)

\* C2 as stated: whenever no port of [start, 9999] is unused, suggest_port
\* fails and returns no port.
C2_AlwaysFailsWhenExhausted ==
    (suggested # NotCalled /\ FreeFrom(start, used) = {}) => ~suggested.ok

\* C2 amended: whenever no port of [start, 9999] is unused, suggest_port
\* returns 9000 if 9000 is unused and fails with the exhausted-range error
\* only if 9000 is used too.
C2_FailsUnlessMinPortFree ==
    (suggested # NotCalled /\ FreeFrom(start, used) = {})
        => suggested = (IF MinPort \in used THEN Raise("ValueError") ELSE Ok(MinPort))

\* C2 witness: the range from the start port is used up and the fallback ran,
\* once finding 9000 used.
C2_Witness ==
    /\ start > MinPort
    /\ FreeFrom(start, used) = {}
    /\ MinPort \in used
    /\ suggested = Raise("ValueError")

(***************************************************************************)
(* The store API on its own: save and load driven with names that end in   *)
(* quotes or spaces as well as plain ones, with and without a description. *)
(***************************************************************************)
StoreNames ==
    { <<"a">>, <<"b">>, <<DQ, "a", DQ>>, <<"a", SQ>>, <<SP, "a">> }
StorePorts == {MinPort, DefaultStartPort, MaxPort}
NoDescription == <<>>
Descriptions == {NoDescription, <<"d">>}

\* The values a caller builds: name, port in range, path, optional description.
StoreInputs ==
    { [name |-> n, port |-> p, path |-> WorktreePath(n), description |-> d] :
        n \in StoreNames, p \in StorePorts, d \in Descriptions }

\* The description of a record: absent when the record has no such field.
DescriptionOf(r) == IF "description" \in DOMAIN r THEN r.description ELSE NoDescription

InitStore ==
    /\ StoreIdle
    /\ PortIdle
    /\ CliIdle
    /\ AuxIdle
    /\ GateIdle

\* ProjectMetadata(name=, port=, path=, description=).save(home); the log
\* keeps whether the write replaced a file.
Save(m) ==
    /\ Cardinality(DOMAIN files \cup {metadata_file(m.name)}) <= MaxFiles
    /\ files' = save(files, ProjectMetadata(m.name, m.port, m.path))
    /\ lastSaved' = {m}
    /\ loadName' = <<>>
    /\ loaded' = NotCalled
    /\ log' = <<Ev("write", m.name, metadata_file(m.name) \in DOMAIN files)>>
    /\ UNCHANGED <<portVars, auxVars, gateVars, repoVars, cmd, pc, args, chosenPort, final, outcome>>

\* ProjectMetadata.load(name, home)
Load(n) ==
    /\ loadName' = n
    /\ loaded' = load(files, n)
    /\ UNCHANGED <<files, lastSaved, portVars, auxVars, gateVars, cliVars>>

NextStore ==
    \/ \E m \in StoreInputs : Save(m)
    \/ \E n \in StoreNames : Load(n)

SpecStore == InitStore /\ [][NextStore]_vars

\* A step that is a save: the load outcome is reset and a value was saved.
IsSaveStep == loaded' = NotCalled /\ lastSaved' # {} /\ log' # <<>>

\* C16: the store holds at most one record per project name: save(m) makes
\* m the record load(m.name) reads (it has m's port), replacing the record the name had (the number of
\* records grows only when the name had none), and the records of all
\* other names read as before.
C16_SaveReplacesOnlyItsName ==
    [][IsSaveStep =>
        \A m \in lastSaved' :
            /\ load(files', m.name).ok
            /\ load(files', m.name).value.port = m.port
            /\ Cardinality(DOMAIN files') =
                   Cardinality(DOMAIN files)
                   + (IF load(files, m.name) = Raise("FileNotFoundError") THEN 1 ELSE 0)
            /\ \A n \in StoreNames \ {m.name} : load(files', n) = load(files, n)]_vars

\* C16 witness: a save replaced the record of its name by one with another
\* port while another name has a record.
C16_Witness ==
    /\ \E m \in lastSaved :
          /\ log = <<Ev("write", m.name, TRUE)>>
          /\ m.port = MaxPort
          /\ load(files, m.name).ok
          /\ load(files, m.name).value.port = MaxPort
    /\ Cardinality(DOMAIN files) = 2

\* C3: save(m) followed by load(m.name) returns a record equal to m in every
\* field, the description included.
C3_RoundTrip ==
    \A m \in lastSaved :
        loadName = m.name =>
            /\ loaded.ok
            /\ loaded.value.name = m.name
            /\ loaded.value.port = m.port
            /\ loaded.value.path = m.path
            /\ DescriptionOf(loaded.value) = m.description

(***************************************************************************)
(* _suggest_branch_names on its own: every base name and every set of      *)
(* existing branches among the base name and its numbered variants.        *)
(***************************************************************************)
\* The numbered variants base-1 .. base-MaxSuffix may exist as branches.
MaxSuffix == 6

BranchPool(base_name) == {base_name} \cup {Candidate(base_name, i) : i \in 1..MaxSuffix}

InitBranch ==
    /\ StoreIdle
    /\ PortIdle
    /\ GateIdle
    /\ initialized = TRUE
    /\ worktrees = {}
    /\ cmd = "none"
    /\ pc = "idle"
    /\ \E base_name \in ProjectNames :
         /\ args = [NoArgs EXCEPT !.project = base_name]
         /\ branches \in SUBSET BranchPool(base_name)
    /\ chosenPort = NoPort
    /\ final = NoFinal
    /\ log = <<>>
    /\ outcome = "none"
    /\ AuxIdle

\* _suggest_branch_names(project)
CallSuggestBranchNames ==
    /\ suggestions = NotCalled
    /\ suggestions' = Ok(suggest_branch_names(branches, args.project))
    /\ UNCHANGED <<storeVars, portVars, cliVars, usedPorts, built, gateVars>>

NextBranch == CallSuggestBranchNames

SpecBranch == InitBranch /\ [][NextBranch]_vars

\* The suffixes 2 .. 5 whose candidate is no branch.
FreeSuffixes(brs, base_name) == {i \in 2..5 : Candidate(base_name, i) \notin brs}

\* C11: _suggest_branch_names(b) returns exactly the candidates b-2 .. b-5
\* that are no branch, in ascending numeric order: the k-th name returned is
\* the candidate of the k-th smallest free suffix.
C11_SuggestsFreeCandidatesInOrder ==
    suggestions # NotCalled =>
        LET s == suggestions.value
            free == FreeSuffixes(branches, args.project) IN
        /\ suggestions.ok
        /\ Len(s) = Cardinality(free)
        /\ \A k \in 1..Len(s) :
              \E i \in free :
                 /\ s[k] = Candidate(args.project, i)
                 /\ Cardinality({j \in free : j < i}) = k - 1

\* C11 witness: with base-2 and base-4 taken the answer is base-3, base-5.
C11_Witness ==
    /\ Candidate(args.project, 2) \in branches
    /\ Candidate(args.project, 4) \in branches
    /\ suggestions = Ok(<<Candidate(args.project, 3), Candidate(args.project, 5)>>)

(***************************************************************************)
(* The store as it is found on disk: records written by save next to files *)
(* edited by hand or damaged, read by load, get_used_ports, suggest_port   *)
(* and the list command; and ProjectMetadata values built directly.        *)
(***************************************************************************)
DiskNames == { <<"a">>, <<"b">> }
DiskPorts == {MinPort, DefaultStartPort, MaxPort}
\* Ports handed to the constructor: in the range, at its ends, outside it.
AnyPorts == DiskPorts \cup {MinPort - 1, MaxPort + 1, 0 - 1}

\* A metadata file typed by hand: the NODE_PORT text is free, the
\* PROJECT_PATH line may be missing.
HandText(name, port_text, with_path) ==
    << KeyName \o <<EQ, DQ>> \o name \o <<DQ>>,
       KeyPort \o <<EQ, DQ>> \o port_text \o <<DQ>> >>
    \o (IF with_path THEN << KeyPath \o <<EQ, DQ>> \o WorktreePath(name) \o <<DQ>> >> ELSE << >>)

\* The texts that are a record of the project with this port.
ValidTexts(name, port) ==
    { SaveText(ProjectMetadata(name, port, WorktreePath(name))),
      HandText(name, <<SP>> \o IntToStr(port), TRUE) }

\* NODE_PORT texts that are no port: no number, nothing, or a number outside
\* [9000, 9999].
BadPortTexts ==
    { <<"x">>, << >>, IntToStr(MaxPort + 1), IntToStr(MinPort - 1), <<"-", "1">> }

BadTexts(name) ==
    {HandText(name, t, TRUE) : t \in BadPortTexts}
    \cup {HandText(name, IntToStr(DefaultStartPort), FALSE), Undecodable}

DiskTexts(name) == BadTexts(name) \cup UNION {ValidTexts(name, p) : p \in DiskPorts}

\* Every directory holding at most one file per name of DiskNames.
Disks ==
    UNION { {fs \in [S -> UNION {DiskTexts(n) : n \in S}] : \A n \in S : fs[n] \in DiskTexts(n)} :
            S \in SUBSET DiskNames }

InitDisk ==
    /\ files \in Disks
    /\ ApiIdle
    /\ PortIdle
    /\ CliIdle
    /\ AuxIdle
    /\ GateIdle

\* No call was made yet on this disk.
Quiet ==
    /\ ApiIdle
    /\ suggested = NotCalled
    /\ AuxIdle
    /\ cmd = "none"

\* ProjectMetadata(name=, port=, path=)
Construct(name, p) ==
    /\ Quiet
    /\ built' = NewProjectMetadata(name, p, WorktreePath(name))
    /\ UNCHANGED <<storeVars, portVars, cliVars, suggestions, usedPorts, gateVars>>

\* ProjectMetadata.get_used_ports(home)
CallGetUsedPorts ==
    /\ Quiet
    /\ usedPorts' = get_used_ports_call(files)
    /\ UNCHANGED <<storeVars, portVars, cliVars, suggestions, built, gateVars>>

\* ProjectMetadata.suggest_port(home)
AllocatePort ==
    /\ Quiet
    /\ suggested' = suggest_port(files, DefaultStartPort)
    /\ UNCHANGED <<storeVars, used, start, cliVars, auxVars, gateVars>>

\* Path.relative_to(Path.home()) accepts the paths below the home directory,
\* where the worktree base lies.
UnderHome(path) ==
    /\ Len(path) >= Len(WorktreeBase)
    /\ SubSeq(path, 1, Len(WorktreeBase)) = WorktreeBase

\* The orders glob may yield the files in.
Orders(S) ==
    {o \in [1..Cardinality(S) -> S] : \A i, j \in 1..Cardinality(S) : o[i] = o[j] => i = j}

\* One row of the table of list (lines 488-510): the record, or "?" when
\* reading it raised.
ListRow(fs, stem) ==
    LET r == load(fs, stem) IN
    IF r.ok THEN Ev("row", stem, UnderHome(r.value.path))
    ELSE Ev("row", stem, FALSE)

\* Whether the handler of list catches what reading this file raises.
ListSurvives(fs, stem) == load(fs, stem).ok \/ Caught(load(fs, stem).error)

RECURSIVE ListRows(_, _)
ListRows(fs, order) ==
    IF Len(order) = 0 THEN << >>
    ELSE IF ~ListSurvives(fs, order[1]) THEN << >>
    ELSE <<ListRow(fs, order[1])>> \o ListRows(fs, Tail(order))

\* claudette list
List ==
    /\ Quiet
    /\ AtPrompt
    /\ cmd' = "list"
    /\ args' = NoArgs
    /\ chosenPort' = NoPort
    /\ \E order \in Orders(GlobStems(files)) :
         Apply(Exits(IF \A n \in GlobStems(files) : ListSurvives(files, n) THEN "ok" ELSE "crash",
                     worktrees, branches, ListRows(files, order)))
    /\ UNCHANGED <<storeVars, portVars, initialized, auxVars, gateVars>>

NextDisk ==
    \/ \E n \in DiskNames, p \in AnyPorts : Construct(n, p)
    \/ \E n \in DiskNames : Quiet /\ Load(n)
    \/ CallGetUsedPorts
    \/ AllocatePort
    \/ List
    \/ \E project \in DiskNames, p \in PortArgs : Quiet /\ AddStart(project, p, FALSE, FALSE, NoName)
    \/ Finish

SpecDisk == InitDisk /\ [][NextDisk]_vars

\* The ports of the valid records of a directory.
ValidPorts(fs) ==
    {p \in DiskPorts : \E n \in DOMAIN fs : fs[n] \in ValidTexts(n, p)}
IsBad(fs, n) == fs[n] \in BadTexts(n)

\* C14: whatever mix of valid and bad records is on disk, get_used_ports
\* does not raise and returns exactly the ports of the valid records, port
\* allocation yields a port, and list ends normally with one row per file,
\* the row of a bad record being its error row.
C14_BadRecordsAreSkipped ==
    /\ usedPorts # NotCalled => usedPorts = Ok(ValidPorts(files))
    /\ suggested # NotCalled => suggested.ok /\ suggested.value \notin ValidPorts(files)
    /\ (cmd = "list" /\ pc = "exited")
          => /\ outcome = "ok"
             /\ Len(log) = Cardinality(DOMAIN files)
             /\ \A n \in DOMAIN files :
                   \E i \in 1..Len(log) : log[i] = Ev("row", n, ~IsBad(files, n))

\* C14 witness: get_used_ports returned the port of the one valid record of
\* a directory that also holds a bad record.
C14_Witness ==
    /\ \E n \in DOMAIN files : IsBad(files, n)
    /\ \E n \in DOMAIN files : ~IsBad(files, n)
    /\ usedPorts.ok
    /\ Cardinality(usedPorts.value) = 1

\* C15: no ProjectMetadata value has a port outside [9000, 9999]: a direct
\* construction and a load yield a record only with a port in the range, and
\* add ends at once on a port argument outside it.
C15_PortAlwaysInRange ==
    /\ built.ok => PortValid(built.value.port)
    /\ loaded.ok => PortValid(loaded.value.port)
    /\ (cmd = "add" /\ ~PortArgAccepted(args))
          => pc = "exited" /\ outcome = "exit2" /\ log = << >> /\ chosenPort = NoPort
    /\ chosenPort # NoPort => PortValid(chosenPort)

\* C15 witness: load refused a record whose NODE_PORT is 10000.
C15_Witness ==
    /\ loadName \in DOMAIN files
    /\ files[loadName] = HandText(loadName, IntToStr(MaxPort + 1), TRUE)
    /\ loaded = Raise("ValidationError")

(***************************************************************************)
(* The version gate and the layout migration (_ensure_claudette_initialized,*)
(* _migrate_v01_to_v02, _write_version_file), which the tests import from  *)
(* claudette.cli; they are modelled from section 4.4 of the specification. *)
(* The store they work on is the one of config.py.                         *)
(***************************************************************************)
CLAUDETTE_VERSION == "0.2.0"
OlderVersion == "0.1.5"
CurrentMarker == Marker("version", CLAUDETTE_VERSION)

\* The marker files an installation may hold.
MarkerStates ==
    { NoMarker, Marker("unreadable", ""), Marker("malformed", ""), Marker("noversion", ""),
      Marker("version", OlderVersion), CurrentMarker }

\* <home>/projects/<name>/.claudette, written like the other keys of files:
\* relative to <home>/projects and without the suffix ".claudette".
current_layout_file(name) == name \o <<SLASH>>

\* The legacy flat records: the files <home>/projects/<name>.claudette.
LegacyStems(fs) == GlobStems(fs)

\* The PROJECT.md the migration writes: a title and one line.
DocText(name) == << <<HASH, SP>> \o name, <<"Project documentation for ">> \o name >>

\* The steps of the migration of one project at which it may fail.
FailPoints == {"none", "mkdir", "move", "doc", "env", "link"}

Disk(fs, ds, es, ls, failed) ==
    [files |-> fs, docs |-> ds, envs |-> es, links |-> ls, failed |-> failed]

Without(f, k) == [x \in (DOMAIN f) \ {k} |-> f[x]]

\* The migration of one project: the directory, the move of the record,
\* PROJECT.md and .env.local unless they exist, the links into the worktree
\* if there is one.  A failure of the links is ignored; any other failure
\* raises, and the exception ends the migration of this project only.
MigrateOne(d, name, wts, fail_at) ==
    LET moved == Put(Without(d.files, metadata_file(name)),
                     current_layout_file(name), d.files[metadata_file(name)])
        ds == IF name \in DOMAIN d.docs THEN d.docs ELSE Put(d.docs, name, DocText(name))
        es == d.envs \cup {name}
        ls == IF name \in wts /\ fail_at # "link" THEN d.links \cup {name} ELSE d.links IN
    IF fail_at \in {"mkdir", "move"}
    THEN Disk(d.files, d.docs, d.envs, d.links, d.failed \cup {name})
    ELSE IF fail_at = "doc"
    THEN Disk(moved, d.docs, d.envs, d.links, d.failed \cup {name})
    ELSE IF fail_at = "env"
    THEN Disk(moved, ds, d.envs, d.links, d.failed \cup {name})
    ELSE Disk(moved, ds, es, ls, d.failed)

\* A migration that one failing project ends for all that follow.
RECURSIVE MigrateAllAborting(_, _, _, _)
MigrateAllAborting(d, todo, wts, fail) ==
    IF todo = {} \/ d.failed # {} THEN d
    ELSE LET name == CHOOSE n \in todo : TRUE IN
         MigrateAllAborting(MigrateOne(d, name, wts, fail[name]), todo \ {name}, wts, fail)

\* The loop of the migration over the legacy records.
RECURSIVE MigrateAll(_, _, _, _)
MigrateAll(d, todo, wts, fail) ==
    IF todo = {} THEN d
    ELSE LET name == CHOOSE n \in todo : TRUE IN
         MigrateAll(MigrateOne(d, name, wts, fail[name]), todo \ {name}, wts, fail)

\* _migrate_v01_to_v02
migrate_v01_to_v02(fs, ds, es, ls, wts, fail) ==
    MigrateAll(Disk(fs, ds, es, ls, {}), LegacyStems(fs), wts, fail)

\* Whether the gate has to migrate: the marker is absent, cannot be read, is
\* no JSON, lacks the version, or has another version.
NeedsMigration(m) == m # CurrentMarker

\* A gate that writes the marker only when there was something to migrate.
GatePlanLazyMarker(home, m, fs, ds, es, ls, wts, fail) ==
    IF ~home \/ ~NeedsMigration(m)
    THEN [marker |-> m, disk |-> Disk(fs, ds, es, ls, {}),
          run |-> GateRun("gate", m, FALSE, FALSE, FALSE, {})]
    ELSE LET d == migrate_v01_to_v02(fs, ds, es, ls, wts, fail) IN
         [marker |-> IF LegacyStems(fs) = {} THEN m ELSE CurrentMarker, disk |-> d,
          run |-> GateRun("gate", m, TRUE, LegacyStems(fs) # {}, FALSE, d.failed)]

\* _ensure_claudette_initialized
GatePlan(home, m, fs, ds, es, ls, wts, fail) ==
    IF ~home \/ ~NeedsMigration(m)
    THEN [marker |-> m, disk |-> Disk(fs, ds, es, ls, {}),
          run |-> GateRun("gate", m, FALSE, FALSE, FALSE, {})]
    ELSE LET d == migrate_v01_to_v02(fs, ds, es, ls, wts, fail) IN
         [marker |-> CurrentMarker, disk |-> d,
          run |-> GateRun("gate", m, TRUE, TRUE, FALSE, d.failed)]

GateNames == { <<"a">>, <<"b">> }
GatePort(name) == IF name = <<"a">> THEN DefaultStartPort ELSE DefaultStartPort + 1
\* The record add saved for a project under the flat layout.
LegacyText(name) == SaveText(ProjectMetadata(name, GatePort(name), WorktreePath(name)))
\* A PROJECT.md the user wrote.
UserDoc == << <<"u">> >>

\* An installation as the flat-layout version left it, with any marker; or
\* no installation at all.
InitGate ==
    /\ homeExists \in BOOLEAN
    /\ ApiIdle
    /\ PortIdle
    /\ AuxIdle
    /\ initialized = homeExists
    /\ branches = {}
    /\ RunIdle
    /\ envs = {}
    /\ links = {}
    /\ gateRun = NoGateRun
    /\ IF homeExists
       THEN /\ marker \in MarkerStates
            /\ \E S \in SUBSET GateNames :
                 /\ files = [n \in S |-> LegacyText(n)]
                 /\ worktrees \in SUBSET S
                 /\ \E D \in SUBSET S : docs = [n \in D |-> UserDoc]
       ELSE /\ marker = NoMarker
            /\ files = EmptyDict
            /\ worktrees = {}
            /\ docs = EmptyDict

ApplyDisk(d) ==
    /\ files' = d.files
    /\ docs' = d.docs
    /\ envs' = d.envs
    /\ links' = d.links
    /\ lastSaved' = {}
    /\ loadName' = <<>>
    /\ loaded' = NotCalled
    /\ usedPorts' = NotCalled

\* One invocation passes the gate.
RunGate ==
    /\ \E fail \in [LegacyStems(files) -> FailPoints] :
         LET g == GatePlan(homeExists, marker, files, docs, envs, links, worktrees, fail) IN
         /\ marker' = g.marker
         /\ gateRun' = g.run
         /\ ApplyDisk(g.disk)
    /\ UNCHANGED <<portVars, cliVars, suggestions, built, homeExists>>

\* _migrate_v01_to_v02 called on its own.
RunMigration ==
    /\ \E fail \in [LegacyStems(files) -> FailPoints] :
         LET d == migrate_v01_to_v02(files, docs, envs, links, worktrees, fail) IN
         /\ gateRun' = GateRun("migrate", marker, TRUE, FALSE, FALSE, d.failed)
         /\ ApplyDisk(d)
    /\ UNCHANGED <<portVars, cliVars, suggestions, built, homeExists, marker>>

NextGate ==
    \/ RunGate
    \/ RunMigration
    \/ \E n \in GateNames : Quiet /\ Load(n)
    \/ CallGetUsedPorts

SpecGate == InitGate /\ [][NextGate]_vars

\* A step that is a run of the gate, and one in which the migration ran.
IsGateStep == gateRun'.op = "gate" /\ loaded' = NotCalled /\ usedPorts' = NotCalled
IsMigrationStep ==
    /\ gateRun'.op \in {"gate", "migrate"}
    /\ gateRun'.migrated
    /\ loaded' = NotCalled
    /\ usedPorts' = NotCalled

\* The marker is absent, unreadable, malformed, without its version field,
\* or records another version.
MarkerIsStale(m) ==
    \/ m.state \in {"absent", "unreadable", "malformed", "noversion"}
    \/ m.state = "version" /\ m.version # CLAUDETTE_VERSION

\* The record of the project at the given file reads as the legacy record did.
KeptAt(fs_after, key, fs_before, name) ==
    /\ key \in DOMAIN fs_after
    /\ ParseRecord(fs_after[key]).ok
    /\ ParseRecord(fs_after[key]) = ParseRecord(fs_before[metadata_file(name)])

\* C12 as stated: load(name) returns the record at the current-layout path
\* when there is one, otherwise the record at the legacy flat path, and
\* fails with not-found only when neither file exists.
C12_LoadFindsEitherLayout ==
    loadName # <<>> =>
        loaded = (IF current_layout_file(loadName) \in DOMAIN files
                  THEN ParseRecord(files[current_layout_file(loadName)])
                  ELSE IF metadata_file(loadName) \in DOMAIN files
                  THEN ParseRecord(files[metadata_file(loadName)])
                  ELSE Raise("FileNotFoundError"))

\* C13 as stated: get_used_ports returns exactly the ports of all valid
\* records under the root, those of the flat layout and those of the
\* per-project directories alike.
C13_UsedPortsCoverBothLayouts ==
    usedPorts # NotCalled =>
        usedPorts = Ok({ParseRecord(files[k]).value.port :
                            k \in {x \in DOMAIN files : ParseRecord(files[x]).ok}})

\* C17: where the installation root exists and the marker is stale, the
\* gate migrates and then stamps the marker with the current version, also
\* when there was nothing to migrate, and does not raise; where the marker
\* is current or the root does not exist it changes nothing.
C17_GateMigratesOnceAndStamps ==
    [][IsGateStep =>
        /\ ~gateRun'.raised
        /\ IF homeExists /\ MarkerIsStale(marker)
           THEN /\ gateRun'.migrated
                /\ gateRun'.wrote
                /\ marker' = Marker("version", CLAUDETTE_VERSION)
                /\ \A n \in LegacyStems(files) \ gateRun'.failed :
                      /\ metadata_file(n) \notin DOMAIN files'
                      /\ current_layout_file(n) \in DOMAIN files'
           ELSE /\ ~gateRun'.migrated
                /\ ~gateRun'.wrote
                /\ UNCHANGED <<files, marker, docs, envs, links, homeExists>>]_vars

\* C17 witness: the gate found a malformed marker and nothing to migrate,
\* and stamped the marker.
C17_Witness ==
    /\ gateRun.op = "gate"
    /\ gateRun.found.state = "malformed"
    /\ gateRun.wrote
    /\ files = EmptyDict
    /\ marker = CurrentMarker

\* C18 as stated: after a migration in which nothing failed, load(name)
\* returns for every legacy record what it returned before and the legacy
\* file is gone; a migration that finds no legacy record changes nothing,
\* and no existing PROJECT.md is ever overwritten.
C18_MigratedRecordsLoadAsBefore ==
    [][(IsMigrationStep /\ gateRun'.failed = {}) =>
        /\ \A n \in LegacyStems(files) :
              /\ load(files', n) = load(files, n)
              /\ metadata_file(n) \notin DOMAIN files'
        /\ LegacyStems(files) = {} => UNCHANGED <<files, docs, envs, links>>
        /\ \A n \in DOMAIN docs : n \in DOMAIN docs' /\ docs'[n] = docs[n]]_vars

IsDeletionCall(e) == e.op \in {"git_worktree_remove", "git_branch_delete"}
IsAddCall(e) == e.op \in {"git_worktree_add_new", "git_worktree_add_existing"}
FailedDeletionAt(l, i) == IsDeletionCall(l[i]) /\ ~l[i].ok

\* C21: when the worktree removal or the branch deletion of force-new or of
\* the confirmed choice 3 fails, the resolver exits with an error at once: the
\* failed call is the last thing add did (no branch deletion after a failed
\* worktree removal, no retry), nothing was returned, no worktree was added
\* and no metadata record was written.
C21_FailedDeletionAborts ==
    [][(cmd' = "add" /\ \E i \in 1..Len(log') : FailedDeletionAt(log', i))
        => /\ pc' = "exited"
           /\ outcome' = "exit1"
           /\ final' = NoFinal
           /\ FailedDeletionAt(log', Len(log'))
           /\ \A i \in 1..Len(log') :
                 /\ ~IsAddCall(log'[i])
                 /\ log'[i].op # "save"
                 /\ \A j \in 1..Len(log') :
                       (i # j /\ IsDeletionCall(log'[i]) /\ IsDeletionCall(log'[j]))
                           => log'[i].op # log'[j].op
           /\ files' = files]_vars

\* C21 witness: in the choice loop, after a confirmed choice 3, the removal
\* of the worktree failed.
C21_Witness ==
    /\ cmd = "add"
    /\ pc = "exited"
    /\ ~args.force_new
    /\ Len(log) >= 2
    /\ log[Len(log)] = Ev("git_worktree_remove", args.project, FALSE)
    /\ log[Len(log) - 1] = Ev("confirm", args.project, TRUE)
    /\ args.project \in worktrees

\* C22: add saves the metadata record only right after the worktree was
\* added successfully; when the worktree cannot be added, add exits with an
\* error and the store is left as it was.
C22_SaveOnlyAfterWorktree ==
    [][cmd' = "add"
        => /\ \A i \in 1..Len(log') :
                 log'[i].op = "save"
                     => /\ i >= 2
                        /\ IsAddCall(log'[i - 1])
                        /\ log'[i - 1].ok
                        /\ log'[i - 1].arg = log'[i].arg
                        /\ log'[i].arg \in worktrees'
           /\ files' # files => \E i \in 1..Len(log') : log'[i].op = "save"
           /\ (\E i \in 1..Len(log') : IsAddCall(log'[i]) /\ ~log'[i].ok)
                 => /\ pc' = "exited"
                    /\ outcome' = "exit1"
                    /\ files' = files
                    /\ \A i \in 1..Len(log') : log'[i].op # "save"]_vars

\* C22 witness: the worktree could not be added for a project that has a
\* record from an earlier add, under another port than the one chosen now.
C22_Witness ==
    /\ cmd = "add"
    /\ pc = "exited"
    /\ outcome = "exit1"
    /\ Len(log) >= 1
    /\ IsAddCall(log[Len(log)])
    /\ ~log[Len(log)].ok
    /\ load(files, final.name).ok
    /\ load(files, final.name).value.port # chosenPort

\* The ports of the records of the store, wherever under projects/ they lie.
PortsOfRecords(fs) ==
    { load(fs, n).value.port : n \in { k \in DOMAIN fs : load(fs, k).ok } }
\* The arguments of add that are in error: both flags, a port outside the
\* range, a given port that is the port of a project.
ValidationError(a, fs) ==
    \/ a.reuse /\ a.force_new
    \/ a.port # NoPort /\ ~PortValid(a.port)
    \/ a.port # NoPort /\ a.port \in PortsOfRecords(fs)
IsSideEffect(e) ==
    IsGitCall(e) \/ e.op \in {"mkdir_worktree_base", "save", "setup"}
ExitsBeforeEffects ==
    /\ pc' = "exited"
    /\ outcome' \in {"exit1", "exit2", "crash"}
    /\ final' = NoFinal
    /\ \A i \in 1..Len(log') : ~IsSideEffect(log'[i])
    /\ UNCHANGED <<files, repoVars>>

\* C23: add given arguments that are in error (both flags, a port outside
\* the range, a port that a project already has) exits with an error in its
\* first step, before any side effect: no directory made, no git call, no
\* write; the store, the branches and the worktrees are as they were.
C23_ValidationBeforeEffects ==
    [][(AtPrompt /\ cmd' = "add" /\ ValidationError(args', files))
        => ExitsBeforeEffects]_vars

\* The same for the given ports that the scan of the store reports as used:
\* these add refuses before any side effect.
ReportedPortRefusedBeforeEffects ==
    [][(AtPrompt /\ cmd' = "add" /\ args'.port # NoPort
            /\ args'.port \in get_used_ports(files))
        => ExitsBeforeEffects]_vars

\* The round taken is choice 3 with the confirmation declined.
DeclinedDeletion ==
    /\ TookChoice(3)
    /\ Len(log') >= Len(log) + 2
    /\ log'[Len(log) + 2] = Ev("confirm", args.project, FALSE)

\* C24: an invalid choice, and choice 3 with the confirmation declined, lead
\* back to the choice prompt: nothing is returned, no git call is made, and
\* the store, the branches and the worktrees are as they were.
C24_InvalidAndDeclinedLoopBack ==
    [][(TookChoice(5) \/ DeclinedDeletion)
        => /\ pc' = "menu"
           /\ outcome' = "running"
           /\ final' = NoFinal
           /\ GitCalls(log') = <<>>
           /\ Len(log') = Len(log) + (IF DeclinedDeletion THEN 2 ELSE 1)
           /\ UNCHANGED <<files, repoVars>>]_vars

\* C24 witness: the choice prompt is back after an invalid choice and then a
\* declined deletion of a branch that has a worktree.
C24_Witness ==
    /\ cmd = "add"
    /\ pc = "menu"
    /\ Rounds(log) = 2
    /\ log[Len(log)] = Ev("confirm", args.project, FALSE)
    /\ \E i \in 1..Len(log) : log[i] = ChoiceEv(5)
    /\ args.project \in worktrees

\* C25: choice 4 (Cancel) ends add with exit status 0: nothing is returned,
\* add made no git call and no write, and the store, the branches and the
\* worktrees are as they were.
C25_CancelExitsCleanly ==
    [][TookChoice(4)
        => /\ pc' = "exited"
           /\ outcome' = "exit0"
           /\ final' = NoFinal
           /\ log' = Append(log, ChoiceEv(4))
           /\ \A i \in 1..Len(log') : ~IsGitCall(log'[i]) /\ log'[i].op # "save"
           /\ UNCHANGED <<files, repoVars>>]_vars

\* C25 witness: Cancel was chosen in the second round, for a branch that has
\* a worktree and a record.
C25_Witness ==
    /\ cmd = "add"
    /\ pc = "exited"
    /\ outcome = "exit0"
    /\ Rounds(log) = 2
    /\ log[Len(log)] = ChoiceEv(4)
    /\ args.project \in worktrees
    /\ load(files, args.project).ok

\* add probed the branch PROJECT and found none.
ProbedAbsent(l, project) ==
    \E i \in 1..(Len(l) - 1) :
        /\ l[i].op = "mkdir_worktree_base"
        /\ l[i + 1] = Ev("branch_exists", project, FALSE)
IsResolverEvent(e) ==
    e.op \in {"branch_info", "choice", "confirm", "prompt_name", "suggest_branch_names",
              "git_worktree_remove", "git_branch_delete", "git_worktree_add_existing"}

\* C26: when the branch PROJECT does not exist, add goes straight on to
\* create a new branch named PROJECT, whatever --reuse, --force-new and
\* --name are: the resolver does nothing (no prompt, no further probe, no
\* removal, no deletion) and the only git call is the worktree added with
\* the new branch PROJECT.
C26_NoConflictNoResolver ==
    [][(cmd' = "add" /\ ProbedAbsent(log', args'.project))
        => /\ pc' \in {"create", "exited"}
           /\ final' = [name |-> args'.project, create_new |-> TRUE]
           /\ \A i \in 1..Len(log') :
                 /\ ~IsResolverEvent(log'[i])
                 /\ log'[i].op = "branch_exists" => log'[i].arg = args'.project
                 /\ IsGitCall(log'[i]) => log'[i] \in
                        { Ev("git_worktree_add_new", args'.project, ok) : ok \in BOOLEAN }]_vars

\* C26 witness: add ended well for a branch that did not exist, given
\* --name with another name and --force-new.
C26_Witness ==
    /\ cmd = "add"
    /\ pc = "exited"
    /\ outcome = "ok"
    /\ ProbedAbsent(log, args.project)
    /\ args.name # NoName
    /\ args.name # args.project
    /\ args.force_new
    /\ args.project \in branches

(***************************************************************************)
(* Claims about the values load reads.                                     *)
(***************************************************************************)
IsQuote(c) == c \in {DQ, SQ}
\* A value with one layer of matching surrounding quotes taken off, and
\* nothing else: quotes inside that layer, and a quote without a partner at
\* the other end, stay.
UnquoteOneLayer(value) ==
    LET t == Strip(value, Whitespace) IN
    IF Len(t) >= 2 /\ IsQuote(t[1]) /\ t[Len(t)] = t[1]
    THEN SubSeq(t, 2, Len(t) - 1)
    ELSE t
\* What stands right of the first "=" of a line.
RawValue(line) == SubSeq(line, FirstIndex(line, EQ) + 1, Len(line))

\* C27: the name load returns is the value of the PROJECT_NAME line with
\* exactly one layer of matching surrounding quotes removed: of two layers
\* the inner one stays, and a quote with no partner stays.
C27_OneQuoteLayerRemoved ==
    (loaded.ok /\ metadata_file(loadName) \in DOMAIN files)
        => \A i \in 1..Len(files[metadata_file(loadName)]) :
              LET line == files[metadata_file(loadName)][i] IN
              (IsAssignment(line) /\ LineKey(line) = KeyName)
                  => loaded.value.name = UnquoteOneLayer(RawValue(line))

(***************************************************************************)
(* Claims about what add builds from the resolver's answer.                *)
(***************************************************************************)
\* C28: when add is about to create the worktree, the answer (name,
\* create_new) it holds agrees with the branches as they are: create_new
\* exactly when no branch of that name exists, and an existing branch is
\* checked out only under the name PROJECT.
C28_AnswerAgreesWithBranches ==
    (cmd = "add" /\ pc = "create")
        => /\ final.create_new <=> ~branch_exists(branches, final.name)
           /\ ~final.create_new => final.name = args.project

\* C28 witness: the resolver answered (PROJECT, create new) after the branch
\* PROJECT was deleted on a confirmed choice 3.
C28_Witness ==
    /\ cmd = "add"
    /\ pc = "create"
    /\ ~args.force_new
    /\ final = [name |-> args.project, create_new |-> TRUE]
    /\ \E i \in 1..Len(log) : log[i] = Ev("git_branch_delete", args.project, TRUE)

\* The port add chose before it probed the branch: the one given, or the
\* one suggested for the store as it was.
PortChosenFirst(a, fs) ==
    IF a.port # NoPort THEN Ok(a.port) ELSE suggest_port(fs, DefaultStartPort)
\* The file of this name is as it was.
RecordUntouched(name) ==
    /\ metadata_file(name) \in DOMAIN files' <=> metadata_file(name) \in DOMAIN files
    /\ metadata_file(name) \in DOMAIN files
          => files'[metadata_file(name)] = files[metadata_file(name)]

\* C29: after an add that ended well the record saved is that of the final
\* name: the file of that name holds the name, the port chosen before the
\* resolver ran and the path worktree_base/<name>; the worktree added and
\* its branch have that name; and when the final name is not the one asked
\* for, the record of the name asked for is as it was.
C29_RecordFollowsFinalName ==
    [][(cmd = "add" /\ pc = "create" /\ outcome' = "ok")
        => /\ metadata_file(final.name) \in DOMAIN files'
           /\ files'[metadata_file(final.name)] =
                 SaveText(ProjectMetadata(final.name, chosenPort, WorktreePath(final.name)))
           /\ load(files', final.name).ok
           /\ load(files', final.name).value.port = chosenPort
           /\ PortChosenFirst(args, files) = Ok(chosenPort)
           /\ final.name \in worktrees'
           /\ final.name \in branches'
           /\ \E i \in 1..Len(log') :
                 /\ IsAddCall(log'[i])
                 /\ log'[i] = Ev(log'[i].op, final.name, TRUE)
           /\ \A i \in 1..Len(log') :
                 log'[i].op \in {"save", "setup"} => log'[i].arg = final.name
           /\ final.name # args.project
                 => /\ RecordUntouched(args.project)
                    /\ worktrees' \ {final.name} = worktrees
                    /\ branches' \ {final.name} = branches]_vars

\* C29 witness: add ended well under a name typed in the rename step, with a
\* port given on the command line.
C29_Witness ==
    /\ cmd = "add"
    /\ pc = "exited"
    /\ outcome = "ok"
    /\ final.name # args.project
    /\ args.port # NoPort
    /\ \E i \in 1..Len(log) : log[i] = Ev("prompt_name", final.name, TRUE)
    /\ load(files, final.name).ok
    /\ load(files, final.name).value.port = args.port

(***************************************************************************)
(* The nuke command on its own, on every store found on disk, with and     *)
(* without an installation root.                                           *)
(***************************************************************************)
NUKE == <<"N", "U", "K", "E">>
\* What typer.prompt can return: a text that is not empty.
Confirmations ==
    { NUKE, <<"n", "u", "k", "e">>, <<"N", "U", "K", "E", SP>>, <<SP, "N", "U", "K", "E">>,
      <<"N", "U", "K">>, <<DQ, "N", "U", "K", "E", DQ>>, <<"y">> }

\* The confirmation compared with blanks around it ignored.
ConfirmedStripped(typed) == Strip(typed, Whitespace) = NUKE

\* confirmation != "NUKE" (line 1379), negated.
Confirmed(typed) == typed = NUKE

\* The docker-compose down of every record that loads, in the order of the
\* glob (lines 1394-1417); what goes wrong for one project is passed over.
RECURSIVE DockerDowns(_, _)
DockerDowns(fs, order) ==
    IF Len(order) = 0 THEN << >>
    ELSE (IF load(fs, order[1]).ok
          THEN <<Ev("docker_down", load(fs, order[1]).value.name, TRUE)>>
          ELSE << >>)
         \o DockerDowns(fs, Tail(order))

\* The files of fs under the names of S.
Restrict(fs, S) == [k \in S |-> fs[k]]

\* What nuke does once it was confirmed (lines 1383-1436).
NukeLog(typed, fs, order, init, rmtreeOk) ==
    <<Ev("prompt_confirmation", typed, TRUE)>>
    \o DockerDowns(fs, order)
    \o (IF init THEN <<Ev("git_worktree_prune", NoName, TRUE)>> ELSE << >>)
    \o <<Ev("rmtree", NoName, rmtreeOk)>>

InitNuke ==
    /\ homeExists \in BOOLEAN
    /\ initialized \in (IF homeExists THEN BOOLEAN ELSE {FALSE})
    /\ worktrees \in (IF initialized THEN SUBSET DiskNames ELSE {{}})
    /\ branches = worktrees
    /\ files \in (IF homeExists THEN Disks ELSE {EmptyDict})
    /\ ApiIdle
    /\ PortIdle
    /\ RunIdle
    /\ AuxIdle
    /\ marker = NoMarker
    /\ docs = EmptyDict
    /\ envs = {}
    /\ links = {}
    /\ gateRun = NoGateRun

\* claudette nuke.  The records, the worktrees and the base repository lie
\* below the installation root; an rmtree that raises leaves any part of
\* them behind.
Nuke ==
    /\ AtPrompt
    /\ cmd' = "nuke"
    /\ args' = NoArgs
    /\ chosenPort' = NoPort
    /\ IF ~homeExists
       THEN /\ Apply(Exits("exit0", worktrees, branches, << >>))
            /\ UNCHANGED <<files, initialized, homeExists>>
       ELSE \E typed \in Confirmations :
              IF ~Confirmed(typed)
              THEN /\ Apply(Exits("exit0", worktrees, branches,
                                  <<Ev("prompt_confirmation", typed, TRUE)>>))
                   /\ UNCHANGED <<files, initialized, homeExists>>
              ELSE \E order \in Orders(GlobStems(files)), rmtreeOk \in BOOLEAN :
                     IF rmtreeOk
                     THEN /\ files' = EmptyDict
                          /\ initialized' = FALSE
                          /\ homeExists' = FALSE
                          /\ Apply(Exits("ok", {}, {},
                                         NukeLog(typed, files, order, initialized, TRUE)))
                     ELSE \E keptFiles \in SUBSET DOMAIN files, keptTrees \in SUBSET worktrees,
                             keptBase \in BOOLEAN :
                            /\ files' = Restrict(files, keptFiles)
                            /\ initialized' = (initialized /\ keptBase)
                            /\ homeExists' = TRUE
                            /\ Apply(Exits("crash", keptTrees,
                                           IF keptBase THEN branches ELSE {},
                                           NukeLog(typed, files, order, initialized, FALSE)))
    /\ UNCHANGED <<apiVars, portVars, auxVars, marker, docs, envs, links, gateRun>>

NextNuke ==
    \/ Nuke
    \/ Finish

SpecNuke == InitNuke /\ [][NextNuke]_vars

IsDestructive(e) == e.op \in {"docker_down", "git_worktree_prune", "rmtree"}
\* The position of the first event of this kind, 0 when there is none.
FirstOp(l, op) ==
    IF \E i \in 1..Len(l) : l[i].op = op
    THEN CHOOSE i \in 1..Len(l) : l[i].op = op /\ \A j \in 1..(i - 1) : l[j].op # op
    ELSE 0

\* C30: nuke stops containers, prunes the worktrees and deletes the
\* installation root, in this order, only when the root exists and the text
\* typed is exactly NUKE; with any other text, and without a root, it exits
\* with status 0 having done none of these, and the records, the worktrees,
\* the branches and the root are as they were.
C30_NukeOnlyOnExactConfirmation ==
    [][(AtPrompt /\ cmd' = "nuke")
        => LET go == /\ homeExists
                     /\ Len(log') >= 1
                     /\ log'[1] = Ev("prompt_confirmation", NUKE, TRUE) IN
           /\ pc' = "exited"
           /\ IF go
              THEN /\ log'[Len(log')].op = "rmtree"
                   /\ FirstOp(log', "rmtree") = Len(log')
                   /\ \A i \in 1..Len(log') :
                         /\ log'[i].op = "docker_down"
                               => (FirstOp(log', "git_worktree_prune") = 0
                                   \/ i < FirstOp(log', "git_worktree_prune"))
                         /\ IsDestructive(log'[i]) => i > 1
                   /\ \A n \in GlobStems(files) :
                         load(files, n).ok
                             => \E i \in 1..Len(log') :
                                    log'[i] = Ev("docker_down", load(files, n).value.name, TRUE)
                   /\ initialized => FirstOp(log', "git_worktree_prune") # 0
                   /\ log'[Len(log')].ok
                         => ~homeExists' /\ files' = EmptyDict /\ worktrees' = {}
              ELSE /\ outcome' = "exit0"
                   /\ \A i \in 1..Len(log') : ~IsDestructive(log'[i])
                   /\ UNCHANGED <<files, repoVars, gateVars>>]_vars

\* C30 witness: nuke, confirmed, stopped the containers of a project,
\* pruned the worktrees and deleted a root that held a record and a
\* worktree.
C30_Witness ==
    /\ cmd = "nuke"
    /\ pc = "exited"
    /\ outcome = "ok"
    /\ ~homeExists
    /\ files = EmptyDict
    /\ \E i \in 1..Len(log) : log[i].op = "docker_down"
    /\ \E i \in 1..Len(log) : log[i].op = "git_worktree_prune"

====
